---- MODULE Spec2Model ----
(***************************************************************************)
(* NA mask support of the NumPy array (numpy/core/src/multiarray/na_mask.c) *)
(* as a state machine: one array object, its mask fields, the heap of mask  *)
(* buffers, and the three API functions PyArray_HasNASupport,               *)
(* PyArray_ContainsNA and PyArray_AllocateMaskNA.                           *)
(***************************************************************************)
EXTENDS Integers, Sequences, FiniteSets, TLC

VARIABLES
    nd,              \* fa->nd, the rank
    dimensions,      \* fa->dimensions, the extents (1-based sequence)
    strides,         \* fa->strides, the data strides
    hasfields,       \* PyArray_HASFIELDS(arr)
    flags,           \* fa->flags restricted to the two mask flags
    maskna_dtype,    \* fa->maskna_dtype
    maskna_data,     \* fa->maskna_data, a buffer id (NULL when none)
    maskna_strides,  \* fa->maskna_strides
    heap,            \* live mask buffers: id -> (byte offset -> byte)
    ret,             \* the last API call: function, arguments, result, steps taken
    pre,             \* the mask fields at the entry of the last API call
    succeeded        \* argument pairs with which AllocateMaskNA has returned 0

vars == <<nd, dimensions, strides, hasfields, flags, maskna_dtype, maskna_data,
          maskna_strides, heap, ret, pre, succeeded>>

arrayShape == <<nd, dimensions, strides, hasfields>>
maskFields == <<flags, maskna_dtype, maskna_data, maskna_strides>>

----------------------------------------------------------------------------
(* Bounds of the model *)

MaxRank == 2
MaxExtent == 2
MaxCode == 2

(* Data strides of the arrays: negative, zero, equal magnitudes of either sign *)
DataStrides == {-1, 0, 1, 2}

----------------------------------------------------------------------------
(* Names of the source *)

NPY_ARRAY_MASKNA == "NPY_ARRAY_MASKNA"
NPY_ARRAY_OWNMASKNA == "NPY_ARRAY_OWNMASKNA"
NPY_BOOL == "NPY_BOOL"
NPY_MASK == "NPY_MASK"
NoDescr == "NULL"
NULL == 0
BorrowedBuf == 1
NewBuf == 2
(* The content of a byte that malloc returned and nobody has written *)
Uninit == -1

----------------------------------------------------------------------------
(* Helpers: element count, logical indices, byte offsets *)

Abs(x) == IF x < 0 THEN -x ELSE x

RECURSIVE Prod(_, _)
Prod(s, n) == IF n = 0 THEN 1 ELSE s[n] * Prod(s, n - 1)

(* PyArray_SIZE(arr): the product of the extents, 1 at rank 0 *)
PyArray_SIZE == Prod(dimensions, nd)

(* The logical indices of the array, 0-based coordinates along each axis *)
MaxDim == IF nd = 0 THEN 0
          ELSE CHOOSE m \in { dimensions[k] : k \in 1..nd } :
                   \A k \in 1..nd : dimensions[k] <= m
Indices == { idx \in [1..nd -> 0..MaxDim - 1] :
                \A k \in 1..nd : idx[k] < dimensions[k] }

RECURSIVE Dot(_, _, _)
Dot(idx, st, n) == IF n = 0 THEN 0 ELSE idx[n] * st[n] + Dot(idx, st, n - 1)

(* Byte offset of a logical index under a stride vector *)
Off(idx, st) == Dot(idx, st, nd)

(* Offsets a stride vector reaches over the array's shape *)
Reached(st) == { Off(idx, st) : idx \in Indices }

----------------------------------------------------------------------------
(* The collaborators of na_mask.c: descriptors, raw memory, the cast routines *)

(* PyArray_DescrFromType(multina ? NPY_MASK : NPY_BOOL) *)
DescrFromType(multina) == IF multina THEN NPY_MASK ELSE NPY_BOOL

(* maskna_dtype->elsize: npy_bool and npy_mask are both one byte *)
elsize(dtype) == IF dtype = NPY_MASK THEN 1 ELSE 1

(* PyArray_malloc(n): n bytes at offsets 0..n-1, none of them written *)
Malloc(n) == [o \in 0..n - 1 |-> Uninit]

(* memset(dst, c, n) *)
Memset(dst, c, n) == [o \in DOMAIN dst |-> IF o < n THEN c ELSE dst[o]]

(* memcpy(dst, src, n) *)
Memcpy(dst, src, n) == [o \in DOMAIN dst |-> IF o < n THEN src[o] ELSE dst[o]]

(* The cast of one mask cell: a Boolean destination stores (x != 0), a same-type
   or widening cast keeps the value *)
CastValue(v, srctype, dsttype) ==
    IF dsttype = NPY_BOOL /\ srctype # NPY_BOOL
    THEN (IF v # 0 THEN 1 ELSE 0)
    ELSE v

(* PyArray_CastRawArrays(count, src, dst, src_stride, dst_stride, ...): the
   destination after a successful 1-D strided cast *)
CastRawArrays(count, src, dst, src_stride, dst_stride, srctype, dsttype) ==
    [o \in DOMAIN dst |->
        IF \E i \in 0..count - 1 : i * dst_stride = o
        THEN LET i == CHOOSE j \in 0..count - 1 :
                          /\ j * dst_stride = o
                          /\ \A l \in 0..count - 1 : l * dst_stride = o => l <= j
             IN  CastValue(src[i * src_stride], srctype, dsttype)
        ELSE dst[o]]

(* The logical index visited at step n of a row-major walk over the shape *)
RECURSIVE Unravel(_, _)
Unravel(n, k) ==
    IF k = 0 THEN <<>>
    ELSE Append(Unravel(n \div dimensions[k], k - 1), n % dimensions[k])

(* PyArray_CastRawNDimArrays(ndim, shape, src, dst, src_strides, dst_strides, ...):
   the destination after a successful N-D strided cast, which visits the
   logical indices in row-major order from step n on *)
RECURSIVE CastRawNDimArrays(_, _, _, _, _, _, _)
CastRawNDimArrays(n, src, dst, src_strides, dst_strides, srctype, dsttype) ==
    IF n >= PyArray_SIZE THEN dst
    ELSE LET idx == Unravel(n, nd)
             o   == Off(idx, dst_strides)
             v   == CastValue(src[Off(idx, src_strides)], srctype, dsttype)
         IN  CastRawNDimArrays(n + 1, src,
                               IF o \in DOMAIN dst THEN [dst EXCEPT ![o] = v] ELSE dst,
                               src_strides, dst_strides, srctype, dsttype)

(* Position (1 = first) of axis a in PyArray_CreateSortedStridePerm's output:
   descending absolute stride, equal strides in ascending axis order *)
PermPos(a) ==
    1 + Cardinality({ b \in 1..nd :
            \/ Abs(strides[b]) > Abs(strides[a])
            \/ Abs(strides[b]) = Abs(strides[a]) /\ b < a })

(* PyArray_CreateSortedStridePerm(fa->nd, fa->strides, strideperm): strideperm[i].perm *)
CreateSortedStridePerm == [i \in 1..nd |-> CHOOSE a \in 1..nd : PermPos(a) = i]

----------------------------------------------------------------------------
(* PyArray_HasNASupport *)

PyArray_HasNASupport == NPY_ARRAY_MASKNA \in flags

(* PyArray_ContainsNA: both paths of the function return 0 *)
PyArray_ContainsNA == IF ~PyArray_HasNASupport THEN FALSE ELSE FALSE

Returned(op, value, err, ownmaskna, multina, descr, malloc) ==
    [op |-> op, value |-> value, err |-> err, ownmaskna |-> ownmaskna,
     multina |-> multina, descr |-> descr, malloc |-> malloc]

Entry == [flags |-> flags, maskna_dtype |-> maskna_dtype,
          maskna_data |-> maskna_data, maskna_strides |-> maskna_strides]

CallContainsNA ==
    /\ ret' = Returned("ContainsNA", PyArray_ContainsNA, "none",
                       FALSE, FALSE, FALSE, FALSE)
    /\ pre' = Entry
    /\ UNCHANGED <<arrayShape, maskFields, heap, succeeded>>

----------------------------------------------------------------------------
(* PyArray_AllocateMaskNA *)

(* Variant of EarlyExit: a request for ownership always allocates, also when
   the array owns its mask already *)
EarlyExit_OwnAlwaysAllocates(ownmaskna) ==
    ~ownmaskna /\ NPY_ARRAY_MASKNA \in flags

(* The two early returns: the array owns a mask, or has one and ownership
   was not requested *)
EarlyExit(ownmaskna) ==
    \/ NPY_ARRAY_OWNMASKNA \in flags
    \/ ~ownmaskna /\ NPY_ARRAY_MASKNA \in flags

(* Variant of StrideLoop: the running stride is multiplied by shape[i], not
   by shape[i_perm] *)
RECURSIVE StrideLoop_ShapeOfI(_, _, _, _)
StrideLoop_ShapeOfI(i, stride, strideperm, acc) ==
    IF i = 0 THEN acc
    ELSE LET i_perm == strideperm[i]
         IN  StrideLoop_ShapeOfI(i - 1, stride * dimensions[i], strideperm,
                                 [acc EXCEPT ![i_perm] = stride])

(* Variant of StrideLoop: strideperm is walked from its first entry to its last *)
RECURSIVE StrideLoop_FirstToLast(_, _, _, _)
StrideLoop_FirstToLast(i, stride, strideperm, acc) ==
    IF i = 0 THEN acc
    ELSE LET i_perm == strideperm[nd + 1 - i]
         IN  StrideLoop_FirstToLast(i - 1, stride * dimensions[i_perm], strideperm,
                                    [acc EXCEPT ![i_perm] = stride])

(* The loop over strideperm from its last entry to its first *)
RECURSIVE StrideLoop(_, _, _, _)
StrideLoop(i, stride, strideperm, acc) ==
    IF i = 0 THEN acc
    ELSE LET i_perm == strideperm[i]
         IN  StrideLoop(i - 1, stride * dimensions[i_perm], strideperm,
                        [acc EXCEPT ![i_perm] = stride])

(* The mask strides the call installs *)
NewMaskStrides(dtype) ==
    IF nd = 1 THEN <<elsize(dtype)>>
    ELSE IF nd > 1
         THEN StrideLoop(nd, elsize(dtype), CreateSortedStridePerm,
                         [k \in 1..nd |-> 0])
         ELSE maskna_strides

(* The rank-1 copy of an existing mask: memcpy when its stride is 1, else the
   strided cast *)
CopyRank1(blank, dtype) ==
    IF maskna_strides[1] = 1
    THEN Memcpy(blank, heap[maskna_data], PyArray_SIZE * elsize(dtype))
    ELSE CastRawArrays(dimensions[1], heap[maskna_data], blank,
                       maskna_strides[1], elsize(dtype), maskna_dtype, dtype)

(* Variant of NewMaskData: the new buffer is set to all ones also when the
   array had a mask *)
NewMaskData_NeverCopies(dtype) ==
    LET blank == Malloc(PyArray_SIZE * elsize(dtype))
    IN  IF nd >= 1
        THEN Memset(blank, 1, PyArray_SIZE * elsize(dtype))
        ELSE [blank EXCEPT ![0] = 1]

(* Variant of NewMaskData: without a prior mask only the first cell of the
   new buffer is set *)
NewMaskData_FirstCellOnly(dtype) ==
    LET blank == Malloc(PyArray_SIZE * elsize(dtype))
        had   == NPY_ARRAY_MASKNA \in flags
    IN  IF nd = 1
        THEN IF had THEN CopyRank1(blank, dtype)
             ELSE Memset(blank, 1, 1)
        ELSE IF nd > 1
        THEN IF had
             THEN CastRawNDimArrays(0, heap[maskna_data], blank, maskna_strides,
                                    NewMaskStrides(dtype), maskna_dtype, dtype)
             ELSE Memset(blank, 1, 1)
        ELSE [blank EXCEPT ![0] = IF had THEN heap[maskna_data][0] ELSE 1]

(* The content of the new buffer when the call commits *)
NewMaskData(dtype) ==
    LET blank == Malloc(PyArray_SIZE * elsize(dtype))
        had   == NPY_ARRAY_MASKNA \in flags
    IN  IF nd = 1
        THEN IF had THEN CopyRank1(blank, dtype)
             ELSE Memset(blank, 1, PyArray_SIZE * elsize(dtype))
        ELSE IF nd > 1
        THEN IF had
             THEN CastRawNDimArrays(0, heap[maskna_data], blank, maskna_strides,
                                    NewMaskStrides(dtype), maskna_dtype, dtype)
             ELSE Memset(blank, 1, PyArray_SIZE * elsize(dtype))
        ELSE [blank EXCEPT ![0] = IF had THEN heap[maskna_data][0] ELSE 1]

(* The call reaches a cast routine, which may fail *)
UsesCast ==
    /\ NPY_ARRAY_MASKNA \in flags
    /\ \/ nd = 1 /\ maskna_strides[1] # 1
       \/ nd > 1

AllocReturnEarly(ownmaskna, multina) ==
    /\ EarlyExit(ownmaskna)
    /\ ret' = Returned("AllocateMaskNA", 0, "none", ownmaskna, multina, FALSE, FALSE)
    /\ pre' = Entry
    /\ succeeded' = succeeded \cup {<<ownmaskna, multina>>}
    /\ UNCHANGED <<arrayShape, maskFields, heap>>

(* Variant of AllocFieldsError: the field check comes after the descriptor
   has been created *)
AllocFieldsError_AfterDescr(ownmaskna, multina) ==
    /\ ~EarlyExit(ownmaskna)
    /\ hasfields
    /\ ret' = Returned("AllocateMaskNA", -1, "RuntimeError", ownmaskna, multina,
                       TRUE, FALSE)
    /\ pre' = Entry
    /\ UNCHANGED <<arrayShape, maskFields, heap, succeeded>>

AllocFieldsError(ownmaskna, multina) ==
    /\ ~EarlyExit(ownmaskna)
    /\ hasfields
    /\ ret' = Returned("AllocateMaskNA", -1, "RuntimeError", ownmaskna, multina,
                       FALSE, FALSE)
    /\ pre' = Entry
    /\ UNCHANGED <<arrayShape, maskFields, heap, succeeded>>

AllocDescrFail(ownmaskna, multina) ==
    /\ ~EarlyExit(ownmaskna)
    /\ ~hasfields
    /\ ret' = Returned("AllocateMaskNA", -1, "DescrError", ownmaskna, multina,
                       TRUE, FALSE)
    /\ pre' = Entry
    /\ UNCHANGED <<arrayShape, maskFields, heap, succeeded>>

AllocMallocFail(ownmaskna, multina) ==
    /\ ~EarlyExit(ownmaskna)
    /\ ~hasfields
    /\ ret' = Returned("AllocateMaskNA", -1, "MemoryError", ownmaskna, multina,
                       TRUE, TRUE)
    /\ pre' = Entry
    /\ UNCHANGED <<arrayShape, maskFields, heap, succeeded>>

(* Variant of AllocCastFail: the new strides are stored in the array before
   the cast is tried *)
AllocCastFail_StridesFirst(ownmaskna, multina) ==
    /\ ~EarlyExit(ownmaskna)
    /\ ~hasfields
    /\ UsesCast
    /\ ret' = Returned("AllocateMaskNA", -1, "CastError", ownmaskna, multina,
                       TRUE, TRUE)
    /\ pre' = Entry
    /\ maskna_strides' = NewMaskStrides(DescrFromType(multina))
    /\ UNCHANGED <<arrayShape, flags, maskna_dtype, maskna_data, heap, succeeded>>

(* The cast fails: the new buffer is freed again, nothing is installed *)
AllocCastFail(ownmaskna, multina) ==
    /\ ~EarlyExit(ownmaskna)
    /\ ~hasfields
    /\ UsesCast
    /\ ret' = Returned("AllocateMaskNA", -1, "CastError", ownmaskna, multina,
                       TRUE, TRUE)
    /\ pre' = Entry
    /\ UNCHANGED <<arrayShape, maskFields, heap, succeeded>>

(* Variant of AllocCommit: only NPY_ARRAY_MASKNA is set *)
AllocCommit_NoOwnFlag(ownmaskna, multina) ==
    /\ ~EarlyExit(ownmaskna)
    /\ ~hasfields
    /\ LET dtype == DescrFromType(multina)
       IN  /\ heap' = (NewBuf :> NewMaskData(dtype)) @@ heap
           /\ maskna_strides' = NewMaskStrides(dtype)
           /\ maskna_dtype' = dtype
           /\ maskna_data' = NewBuf
           /\ flags' = flags \cup {NPY_ARRAY_MASKNA}
    /\ ret' = Returned("AllocateMaskNA", 0, "none", ownmaskna, multina, TRUE, TRUE)
    /\ pre' = Entry
    /\ succeeded' = succeeded \cup {<<ownmaskna, multina>>}
    /\ UNCHANGED arrayShape

(* The mask is allocated, filled and installed *)
AllocCommit(ownmaskna, multina) ==
    /\ ~EarlyExit(ownmaskna)
    /\ ~hasfields
    /\ LET dtype == DescrFromType(multina)
       IN  /\ heap' = (NewBuf :> NewMaskData(dtype)) @@ heap
           /\ maskna_strides' = NewMaskStrides(dtype)
           /\ maskna_dtype' = dtype
           /\ maskna_data' = NewBuf
           /\ flags' = flags \cup {NPY_ARRAY_MASKNA, NPY_ARRAY_OWNMASKNA}
    /\ ret' = Returned("AllocateMaskNA", 0, "none", ownmaskna, multina, TRUE, TRUE)
    /\ pre' = Entry
    /\ succeeded' = succeeded \cup {<<ownmaskna, multina>>}
    /\ UNCHANGED arrayShape

PyArray_AllocateMaskNA(ownmaskna, multina) ==
    \/ AllocReturnEarly(ownmaskna, multina)
    \/ AllocFieldsError(ownmaskna, multina)
    \/ AllocDescrFail(ownmaskna, multina)
    \/ AllocMallocFail(ownmaskna, multina)
    \/ AllocCastFail(ownmaskna, multina)
    \/ AllocCommit(ownmaskna, multina)

----------------------------------------------------------------------------
(* Initial states: an array without a mask, or a view that borrows the mask
   of another array *)

NoCall == Returned("none", 0, "none", FALSE, FALSE, FALSE, FALSE)

InitFresh ==
    /\ nd \in 0..MaxRank
    /\ dimensions \in [1..nd -> 0..MaxExtent]
    /\ strides \in [1..nd -> DataStrides]
    /\ hasfields \in BOOLEAN
    /\ flags = {}
    /\ maskna_dtype = NoDescr
    /\ maskna_data = NULL
    /\ maskna_strides = [k \in 1..nd |-> 0]
    /\ heap = <<>>

(* Row-major and column-major strides of a shape, in units of one cell *)
RECURSIVE COrder(_, _)
COrder(shape, n) ==
    IF n = 0 THEN <<>>
    ELSE LET rest == COrder(Tail(shape), n - 1)
         IN  <<IF n = 1 THEN 1
               ELSE rest[1] * (IF shape[2] = 0 THEN 1 ELSE shape[2])>> \o rest

Reverse(s) == [k \in 1..Len(s) |-> s[Len(s) + 1 - k]]

FOrder(shape, n) == Reverse(COrder(Reverse(shape), n))

(* Mask layouts a view can borrow: the owner's mask in row-major or
   column-major order, or its row-major mask seen through a reversed first
   axis, through a broadcast first axis, or through a step of two *)
BorrowedLayouts(shape, n) ==
    LET c == COrder(shape, n)
    IN  IF n = 0 THEN {c}
        ELSE { c, FOrder(shape, n), [c EXCEPT ![1] = -c[1]],
               [c EXCEPT ![1] = 0], [k \in 1..n |-> 2 * c[k]] }

(* The code a borrowed mask gives its available cells: 1 in a Boolean mask,
   the highest payload in a multi-NA mask *)
AvailableCode(dtype) == IF dtype = NPY_BOOL THEN 1 ELSE MaxCode

(* Offset of the last logical element under a stride vector *)
LastOff(st, shape, n) ==
    Dot([k \in 1..n |-> IF shape[k] = 0 THEN 0 ELSE shape[k] - 1], st, n)

(* No offset of a buffer *)
Nowhere == -1000

(* A borrowed mask buffer over the offsets the view reaches: every cell
   available, or one NA cell at the last logical element *)
BorrowedContents(st, dtype) ==
    { [o \in Reached(st) |-> IF o = z THEN 0 ELSE AvailableCode(dtype)] :
        z \in {Nowhere, LastOff(st, dimensions, nd)} }

InitView ==
    /\ nd \in 0..MaxRank
    /\ dimensions \in [1..nd -> 0..MaxExtent]
    /\ strides \in {COrder(dimensions, nd), FOrder(dimensions, nd)}
    /\ hasfields \in BOOLEAN
    /\ flags = {NPY_ARRAY_MASKNA}
    /\ maskna_dtype \in {NPY_BOOL, NPY_MASK}
    /\ maskna_data = BorrowedBuf
    /\ maskna_strides \in BorrowedLayouts(dimensions, nd)
    /\ \E c \in BorrowedContents(maskna_strides, maskna_dtype) :
           heap = (BorrowedBuf :> c)

Init ==
    /\ InitFresh \/ InitView
    /\ ret = NoCall
    /\ pre = Entry
    /\ succeeded = {}

Next ==
    \/ \E ownmaskna \in BOOLEAN, multina \in BOOLEAN :
           PyArray_AllocateMaskNA(ownmaskna, multina)
    \/ CallContainsNA

Spec == Init /\ [][Next]_vars

----------------------------------------------------------------------------
(* Vocabulary of the properties *)

Allocated == ret.op = "AllocateMaskNA"
Succeeded == Allocated /\ ret.value = 0
Failed == Allocated /\ ret.value = -1
(* The last call allocated, filled and installed a new mask *)
Committed == Succeeded /\ ret.malloc
HadMask == NPY_ARRAY_MASKNA \in pre.flags
OwnedMask == NPY_ARRAY_OWNMASKNA \in pre.flags

(* The mask cell of a logical index, now and at the entry of the last call *)
Cell(idx) == heap[maskna_data][Off(idx, maskna_strides)]
OldCell(idx) == heap[pre.maskna_data][Off(idx, pre.maskna_strides)]

(* C1: a failed AllocateMaskNA leaves the mask flags, the mask buffer pointer,
   the mask strides and the mask dtype as they were at the entry of the call *)
C1_FailureChangesNothing == Failed => Entry = pre

C1_Witness ==
    /\ Failed /\ ret.err = "CastError" /\ nd >= 2
    /\ pre.maskna_strides # NewMaskStrides(DescrFromType(ret.multina))

(* C2 as claimed: after every successful AllocateMaskNA the array has both
   the MASKNA and the OWNMASKNA flag *)
C2_SuccessOwnsMask ==
    Succeeded => {NPY_ARRAY_MASKNA, NPY_ARRAY_OWNMASKNA} \subseteq flags

(* C2 amended: after a successful AllocateMaskNA the array has MASKNA, and it
   has OWNMASKNA unless ownership was not requested and the array entered with
   a borrowed mask, which it then keeps untouched *)
C2_SuccessHasMask ==
    Succeeded =>
        /\ NPY_ARRAY_MASKNA \in flags
        /\ \/ NPY_ARRAY_OWNMASKNA \in flags
           \/ ~ret.ownmaskna /\ HadMask /\ ~OwnedMask /\ Entry = pre

C2_Witness ==
    /\ Succeeded /\ ret.ownmaskna /\ HadMask /\ ~OwnedMask
    /\ NPY_ARRAY_OWNMASKNA \in flags

(* The step is a call that returns 0 at once: nothing allocated, nothing changed *)
NoOpSuccess ==
    /\ ret'.value = 0 /\ ~ret'.descr /\ ~ret'.malloc
    /\ maskFields' = maskFields
    /\ heap' = heap

(* C3: an AllocateMaskNA call whose arguments have already returned success
   on this array, a call on an array that owns its mask, and a call without
   the ownership request on an array that has a mask, all return 0 without
   allocating and leave the mask buffer, its contents, strides, dtype and
   both flags unchanged *)
C3_Idempotent ==
    [][ret'.op = "AllocateMaskNA" =>
         /\ <<ret'.ownmaskna, ret'.multina>> \in succeeded => NoOpSuccess
         /\ NPY_ARRAY_OWNMASKNA \in flags => NoOpSuccess
         /\ ~ret'.ownmaskna /\ NPY_ARRAY_MASKNA \in flags => NoOpSuccess]_vars

(* A second call with the arguments of the call that installed the mask *)
C3_Witness ==
    /\ Succeeded /\ ~ret.malloc /\ OwnedMask
    /\ succeeded = {<<ret.ownmaskna, ret.multina>>}
    /\ ret.ownmaskna

(* C4: after a borrowed mask was migrated, every logical index has the same
   NA status (cell zero or not) in the new mask as in the old one *)
C4_StatusPreserved ==
    Committed /\ HadMask =>
        \A idx \in Indices : (Cell(idx) = 0) <=> (OldCell(idx) = 0)

C4_Witness ==
    /\ Committed /\ HadMask /\ nd >= 2
    /\ pre.maskna_dtype # maskna_dtype
    /\ pre.maskna_strides # maskna_strides
    /\ \E idx \in Indices : Cell(idx) = 0
    /\ \E idx \in Indices : Cell(idx) # 0

(* C5: a mask allocated for an array that had none holds 1 in every cell of
   the new buffer *)
C5_FreshMaskAllOnes ==
    Committed /\ ~HadMask =>
        /\ DOMAIN heap[maskna_data] = 0..PyArray_SIZE * elsize(maskna_dtype) - 1
        /\ \A o \in DOMAIN heap[maskna_data] : heap[maskna_data][o] = 1

C5_Witness ==
    /\ Committed /\ ~HadMask /\ nd >= 2 /\ PyArray_SIZE >= 4
    /\ maskna_dtype = NPY_MASK

(* C6: the installed mask strides of an array of rank >= 1 send distinct
   logical indices to distinct offsets, the offsets reached are exactly the
   cells 0, elsize, ... of the new buffer, and at rank 1 the stride is elsize *)
C6_MaskFillsBuffer ==
    Committed /\ nd >= 1 =>
        /\ \A i, j \in Indices :
               Off(i, maskna_strides) = Off(j, maskna_strides) => i = j
        /\ Reached(maskna_strides) =
               { k * elsize(maskna_dtype) : k \in 0..PyArray_SIZE - 1 }
        /\ Reached(maskna_strides) \subseteq DOMAIN heap[maskna_data]
        /\ nd = 1 => maskna_strides[1] = elsize(maskna_dtype)

C6_Witness ==
    /\ Committed /\ nd >= 2 /\ PyArray_SIZE >= 4
    /\ strides[1] < 0 /\ strides[2] = -strides[1]

(* The orders of the axes by ascending absolute data stride *)
AscendingOrders ==
    { p \in [1..nd -> 1..nd] :
        /\ \A i, j \in 1..nd : p[i] = p[j] => i = j
        /\ \A i, j \in 1..nd : i < j => Abs(strides[p[i]]) <= Abs(strides[p[j]]) }

(* Product of the extents of the first n axes of an order *)
RECURSIVE Placed(_, _)
Placed(p, n) == IF n = 0 THEN 1 ELSE dimensions[p[n]] * Placed(p, n - 1)

(* In some ascending order of the data strides, each axis has the element size
   times the extents of the axes before it as its mask stride *)
RunningProduct ==
    \E p \in AscendingOrders :
        \A i \in 1..nd :
            maskna_strides[p[i]] = elsize(maskna_dtype) * Placed(p, i - 1)

(* C7 as claimed: at rank >= 2 the mask strides are the running products in
   ascending data-stride order, and an axis with a smaller absolute data
   stride always has a strictly smaller mask stride *)
C7_SameStrictOrder ==
    Committed /\ nd >= 2 =>
        /\ RunningProduct
        /\ \A a, b \in 1..nd :
               Abs(strides[a]) < Abs(strides[b])
                   => maskna_strides[a] < maskna_strides[b]

(* C7 amended: the mask strides are the running products; when no extent is
   zero, an axis with a smaller absolute data stride has a mask stride that
   is not larger, and strictly smaller when its own extent is at least 2 *)
C7_SameOrder ==
    Committed /\ nd >= 2 =>
        /\ RunningProduct
        /\ (\A k \in 1..nd : dimensions[k] >= 1) =>
               \A a, b \in 1..nd :
                   Abs(strides[a]) < Abs(strides[b]) =>
                       /\ maskna_strides[a] <= maskna_strides[b]
                       /\ dimensions[a] >= 2
                              => maskna_strides[a] < maskna_strides[b]

C7_Witness ==
    /\ Committed /\ nd >= 2
    /\ \A k \in 1..nd : dimensions[k] >= 2
    /\ Abs(strides[1]) < Abs(strides[2])
    /\ maskna_strides[1] < maskna_strides[2]

(* C8 as claimed: on an array with fields every AllocateMaskNA call fails with
   the field error before a descriptor or a buffer is requested, and changes
   nothing *)
C8_FieldsAlwaysFail ==
    Allocated /\ hasfields =>
        /\ Failed /\ ret.err = "RuntimeError"
        /\ ~ret.descr /\ ~ret.malloc
        /\ Entry = pre

(* C8 amended: on an array with fields a call that does not return early
   fails with the field error before a descriptor or a buffer is requested;
   a call on an array that owns a mask, or that has one when ownership is not
   requested, returns success; in both cases nothing changes *)
C8_FieldsFailUnlessEarly ==
    Allocated /\ hasfields =>
        /\ ~ret.descr /\ ~ret.malloc
        /\ Entry = pre
        /\ IF OwnedMask \/ (~ret.ownmaskna /\ HadMask)
           THEN Succeeded
           ELSE Failed /\ ret.err = "RuntimeError"

C8_Witness ==
    /\ Failed /\ hasfields /\ ret.err = "RuntimeError"
    /\ HadMask /\ ret.ownmaskna /\ ret.multina

(* Some logical element of the array is NA *)
SomeNA == \E idx \in Indices : Cell(idx) = 0

(* C9 as claimed: ContainsNA is false without a mask, otherwise true exactly
   when some logical element has a zero mask cell, and changes nothing *)
C9_ContainsNAScans ==
    ret.op = "ContainsNA" =>
        /\ ret.value <=> (PyArray_HasNASupport /\ SomeNA)
        /\ Entry = pre

(* C10 as claimed: for a rank-1 mask of stride elsize the new buffer equals
   what the strided cast writes, and a new Boolean mask holds only 0 and 1 *)
C10_FlatCopyEqualsCast ==
    Committed /\ HadMask /\ nd = 1 /\ pre.maskna_strides[1] = elsize(maskna_dtype) =>
        /\ heap[maskna_data] =
               CastRawArrays(dimensions[1], heap[pre.maskna_data],
                             Malloc(PyArray_SIZE * elsize(maskna_dtype)),
                             pre.maskna_strides[1], elsize(maskna_dtype),
                             pre.maskna_dtype, maskna_dtype)
        /\ maskna_dtype = NPY_BOOL =>
               \A o \in DOMAIN heap[maskna_data] : heap[maskna_data][o] \in {0, 1}

====
